---- MODULE Spec2Model ----
(***************************************************************************)
(* Model of lsb (src/main.go): the S3 bucket lister / deleter.             *)
(*                                                                         *)
(* Numbers.  An int64 (they run past TLC's native integers) and every      *)
(* float64 significand is a sequence of limbs in base 1024, least          *)
(* significant limb first, without high zero limbs (0 is <<>>).  A float64 *)
(* value is the exact dyadic rational [m |-> limbs, e |-> exponent], worth *)
(* m * 2^e, m odd or zero and of at most 53 bits; every float64 operation  *)
(* is the exact operation followed by rounding to nearest, ties to even.   *)
(* Text is a sequence of one-character strings.                            *)
(***************************************************************************)
EXTENDS Integers, Sequences, FiniteSets, TLC

\* --------------------------------------------------------------- numbers

Max2(a, b) == IF a >= b THEN a ELSE b

Min2(a, b) == IF a <= b THEN a ELSE b

\* limb base and bits per limb
LimbBits == 10

Base == 2 ^ LimbBits

RECURSIVE BigOf(_)
BigOf(n) == IF n = 0 THEN <<>> ELSE <<n % Base>> \o BigOf(n \div Base)

RECURSIVE NatFrom(_, _)
NatFrom(x, i) == IF i > Len(x) THEN 0 ELSE x[i] + Base * NatFrom(x, i + 1)

NatOf(x) == NatFrom(x, 1)

LimbAt(x, i) == IF i >= 1 /\ i <= Len(x) THEN x[i] ELSE 0

Trim(x) ==
    IF \A i \in 1..Len(x) : x[i] = 0 THEN <<>>
    ELSE SubSeq(x, 1, CHOOSE i \in 1..Len(x) : x[i] # 0 /\ \A j \in (i + 1)..Len(x) : x[j] = 0)

\* bits of a limb v > 0
Width(v) == CHOOSE w \in 1..LimbBits : 2 ^ (w - 1) <= v /\ v < 2 ^ w

BitLen(x) == IF x = <<>> THEN 0 ELSE LimbBits * (Len(x) - 1) + Width(x[Len(x)])

\* bit i of x, bit 0 the least significant
BitOf(x, i) == (LimbAt(x, (i \div LimbBits) + 1) \div 2 ^ (i % LimbBits)) % 2

RECURSIVE AddC(_, _, _, _)
AddC(x, y, i, c) ==
    IF i > Len(x) /\ i > Len(y)
    THEN IF c = 1 THEN <<1>> ELSE <<>>
    ELSE LET s == LimbAt(x, i) + LimbAt(y, i) + c
         IN  <<s % Base>> \o AddC(x, y, i + 1, s \div Base)

AddBig(x, y) == AddC(x, y, 1, 0)

\* x - y for x >= y
RECURSIVE SubC(_, _, _, _)
SubC(x, y, i, c) ==
    IF i > Len(x)
    THEN <<>>
    ELSE LET s == LimbAt(x, i) - LimbAt(y, i) - c
         IN  <<s % Base>> \o SubC(x, y, i + 1, IF s < 0 THEN 1 ELSE 0)

SubBig(x, y) == Trim(SubC(x, y, 1, 0))

\* x * c for a native c >= 0
RECURSIVE MulC(_, _, _, _)
MulC(x, c, i, carry) ==
    IF i > Len(x)
    THEN BigOf(carry)
    ELSE LET s == x[i] * c + carry
         IN  <<s % Base>> \o MulC(x, c, i + 1, s \div Base)

MulSmall(x, c) == Trim(MulC(x, c, 1, 0))

\* x divided by a native d > 0, from limb i down: [q, r]
RECURSIVE DivC(_, _, _, _)
DivC(x, d, i, acc) ==
    IF i = 0 THEN acc
    ELSE LET r2 == acc.r * Base + x[i]
         IN  DivC(x, d, i - 1, [q |-> <<r2 \div d>> \o acc.q, r |-> r2 % d])

DivSmall(x, d) ==
    LET res == DivC(x, d, Len(x), [q |-> <<>>, r |-> 0])
    IN  [q |-> Trim(res.q), r |-> res.r]

LessBig(x, y) ==
    IF Len(x) # Len(y) THEN Len(x) < Len(y)
    ELSE \E i \in 1..Len(x) : x[i] < y[i] /\ \A j \in (i + 1)..Len(x) : x[j] = y[j]

LeqBig(x, y) == ~LessBig(y, x)

Zeros(k) == [i \in 1..k |-> 0]

\* x * 2^k
ShiftL(x, k) ==
    IF x = <<>> THEN <<>>
    ELSE Zeros(k \div LimbBits) \o MulSmall(x, 2 ^ (k % LimbBits))

\* x / 2^k rounded down
ShiftR(x, k) ==
    DivSmall(SubSeq(x, (k \div LimbBits) + 1, Len(x)), 2 ^ (k % LimbBits)).q

\* x / 2^k rounded to nearest, ties to even
RoundShiftR(x, k) ==
    IF k <= 0 THEN ShiftL(x, -k)
    ELSE LET q      == ShiftR(x, k)
             half   == BitOf(x, k - 1) = 1
             sticky == \E i \in 0..(k - 2) : BitOf(x, i) = 1
             odd    == BitOf(q, 0) = 1
         IN  IF half /\ (sticky \/ odd) THEN AddBig(q, <<1>>) ELSE q

\* number of low zero bits of x # <<>>
LowZeros(x) == CHOOSE z \in 0..BitLen(x) : BitOf(x, z) = 1 /\ \A i \in 0..(z - 1) : BitOf(x, i) = 0

\* ------------------------------------------------------------------ text

DigitChars == <<"0", "1", "2", "3", "4", "5", "6", "7", "8", "9">>

RECURSIVE Dec(_)
Dec(n) == IF n < 10 THEN <<DigitChars[n + 1]>> ELSE Dec(n \div 10) \o <<DigitChars[(n % 10) + 1]>>

\* --------------------------------------------------------------- float64

\* bits of a float64 significand
MantBits == 53

Canon(m, e) ==
    IF m = <<>> THEN [m |-> <<>>, e |-> 0]
    ELSE LET z == LowZeros(m) IN [m |-> ShiftR(m, z), e |-> e + z]

\* the float64 nearest to m * 2^e, ties to even
RoundF(m, e) ==
    IF BitLen(m) <= MantBits THEN Canon(m, e)
    ELSE LET k == BitLen(m) - MantBits IN Canon(RoundShiftR(m, k), e + k)

RoundD(d) == RoundF(d.m, d.e)

\* exact sum, difference (x >= y) and product of two dyadic rationals
DAdd(x, y) ==
    IF x.m = <<>> THEN y
    ELSE IF y.m = <<>> THEN x
    ELSE LET e0 == Min2(x.e, y.e)
         IN  [m |-> AddBig(ShiftL(x.m, x.e - e0), ShiftL(y.m, y.e - e0)), e |-> e0]

DSub(x, y) ==
    IF y.m = <<>> THEN x
    ELSE LET e0 == Min2(x.e, y.e)
         IN  [m |-> SubBig(ShiftL(x.m, x.e - e0), ShiftL(y.m, y.e - e0)), e |-> e0]

DMul(x, y) ==
    IF BitLen(x.m) >= BitLen(y.m)
    THEN [m |-> MulSmall(x.m, NatOf(y.m)), e |-> x.e + y.e]
    ELSE [m |-> MulSmall(y.m, NatOf(x.m)), e |-> x.e + y.e]

DLeq(x, y) ==
    LET e0 == Min2(x.e, y.e)
    IN  LeqBig(ShiftL(x.m, x.e - e0), ShiftL(y.m, y.e - e0))

FAdd(x, y) == RoundD(DAdd(x, y))

FSub(x, y) == RoundD(DSub(x, y))

FMul(x, y) == RoundD(DMul(x, y))

\* x / y rounded once: the quotient is carried to 55 bits or more and the
\* remainder kept as a sticky bit below it (y's significand fits a limb
\* division: those of this program are 1 and 25)
FDiv(x, y) ==
    IF x.m = <<>> THEN x
    ELSE LET k   == Max2(0, MantBits + 2 + BitLen(y.m) - BitLen(x.m))
             res == DivSmall(ShiftL(x.m, k), NatOf(y.m))
             st  == IF res.r = 0 THEN 0 ELSE 1
         IN  RoundF(AddBig(ShiftL(res.q, 1), BigOf(st)), x.e - y.e - k - 1)

\* float64(n) for an int64 n >= 0
FloatOfInt(n) == RoundF(n, 0)

\* int(x) for x >= 0: truncation toward zero
TruncF(x) ==
    IF x.e >= 0 THEN NatOf(ShiftL(x.m, x.e)) ELSE NatOf(ShiftR(x.m, -x.e))

\* fmt "%.1f" of x >= 0: the decimal nearest to the exact value, ties to even
FormatF1(x) ==
    LET t == NatOf(RoundShiftR(MulSmall(x.m, 10), -x.e))
    IN  Dec(t \div 10) \o <<".">> \o Dec(t % 10)

FZero == [m |-> <<>>, e |-> 0]

FOne == [m |-> <<1>>, e |-> 0]

\* ------------------------------------------------------- pure functions

unit == BigOf(1024)

UnitLetters == <<"K", "M", "G", "T", "P", "E">>

\* the loop leaving at n = unit (n > unit for n >= unit)
RECURSIVE IECLoopStrict(_, _, _)
IECLoopStrict(n, div, exp) ==
    IF LessBig(unit, n)
    THEN IECLoopStrict(DivSmall(n, 1024).q, MulSmall(div, 1024), exp + 1)
    ELSE [div |-> div, exp |-> exp]

\* the loop of byteCountIEC: for n := b / unit; n >= unit; n /= unit
RECURSIVE IECLoop(_, _, _)
IECLoop(n, div, exp) ==
    IF LeqBig(unit, n)
    THEN IECLoop(DivSmall(n, 1024).q, MulSmall(div, 1024), exp + 1)
    ELSE [div |-> div, exp |-> exp]

\* the loop started at b (n := b for n := b / unit)
IECScaleFromB(b) == IECLoop(b, unit, 0)

IECScale(b) == IECLoop(DivSmall(b, 1024).q, unit, 0)

\* byteCountIEC(b) for b >= 0; indexing "KMGTPE" out of range panics
byteCountIEC(b) ==
    IF LessBig(b, unit)
    THEN Dec(NatOf(b)) \o <<" ", "B">>
    ELSE LET s == IECScale(b)
         IN  IF s.exp + 1 > Len(UnitLetters)
             THEN <<"panic">>
             ELSE FormatF1(FDiv(FloatOfInt(b), FloatOfInt(s.div)))
                  \o <<" ", UnitLetters[s.exp + 1], "B">>

\* How the build evaluates x*y + z*w: each product rounded ("none"), or one
\* product fused into the addition and rounded once with it.
Fusions == {"none", "left", "right"}

\* the weights swapped: a * factor + b * (1 - factor)
InterpolateChannelSwapped(factor, a, b, fma) ==
    TruncF(FAdd(FMul(FloatOfInt(BigOf(a)), factor),
                FMul(FloatOfInt(BigOf(b)), FSub(FOne, factor))))

\* one channel of interpolateColor
InterpolateChannel(factor, a, b, fma) ==
    LET pa == DMul(FloatOfInt(BigOf(a)), FSub(FOne, factor))
        pb == DMul(FloatOfInt(BigOf(b)), factor)
        v  == CASE fma = "none"  -> FAdd(RoundD(pa), RoundD(pb))
                [] fma = "left"  -> RoundD(DAdd(pa, RoundD(pb)))
                [] fma = "right" -> RoundD(DAdd(RoundD(pa), pb))
    IN  TruncF(v)

interpolateColor(factor, c1, c2, fma) ==
    [R |-> InterpolateChannel(factor, c1.R, c2.R, fma),
     G |-> InterpolateChannel(factor, c1.G, c2.G, fma),
     B |-> InterpolateChannel(factor, c1.B, c2.B, fma)]

minObjectSizeLimit == BigOf(1024 * 1024)

maxObjectSizeLimit == BigOf(400 * 1024 * 1024)

white == [R |-> 255, G |-> 255, B |-> 255]

darkRed == [R |-> 220, G |-> 0, B |-> 0]

\* the switch of main that picks the colour of a line
colorForSize(size, fma) ==
    IF LeqBig(size, minObjectSizeLimit) THEN white
    ELSE IF LeqBig(maxObjectSizeLimit, size) THEN white
    ELSE interpolateColor(FDiv(FloatOfInt(size), FloatOfInt(maxObjectSizeLimit)),
                          white, darkRed, fma)

\* Color.String()
ColorString(c) ==
    <<"\\033", "[", "3", "8", ";", "2", ";">> \o Dec(c.R) \o <<";">> \o Dec(c.G)
        \o <<";">> \o Dec(c.B) \o <<"m">>

\* ------------------------------------------------------------ the driver

VARIABLES
    bucketName, bucketPrefix, filter, minSizeStr, maxSizeStr,
    printFullObjectPath, delete,    \* the flags
    minSize, maxSize,               \* the parsed size bounds, 0 until parsed
    isTerm,                         \* standard output is a terminal
    fma,                            \* how the build evaluates x*y + z*w
    pc,                             \* where main is
    pos, more,                      \* the paginator: objects listed, HasMorePages
    fetched,                        \* the pages NextPage returned, in order
    stdout,                         \* what was printed, in order
    requests,                       \* the DeleteObjects calls made, in order
    deleted,                        \* keys the bucket has actually dropped
    totalDeleteSize, totalObjectsDeleted,
    fn, arg, ret                    \* a direct call of one of the functions

flagVars == <<bucketName, bucketPrefix, filter, minSizeStr, maxSizeStr,
              printFullObjectPath, delete, isTerm, fma>>

callVars == <<fn, arg, ret>>

vars == <<bucketName, bucketPrefix, filter, minSizeStr, maxSizeStr,
          printFullObjectPath, delete, minSize, maxSize, isTerm, fma, pc,
          pos, more, fetched, stdout, requests, deleted,
          totalDeleteSize, totalObjectsDeleted, fn, arg, ret>>

\* most objects a page of the listing holds
MaxPageLen == 3

Stamp(d, h) == [Y |-> 2024, Mo |-> 2, D |-> d, h |-> h, mi |-> 5, s |-> 59]

\* the bucket, in the key order S3 lists it in
Bucket ==
    << [key |-> <<"a">>, size |-> BigOf(100),
        lastModified |-> Stamp(1, 0), storageClass |-> <<"STANDARD">>],
       [key |-> <<"a", "b", "c", "1", "2", "3">>, size |-> BigOf(1024 * 1024),
        lastModified |-> Stamp(9, 7), storageClass |-> <<"STANDARD">>],
       [key |-> <<"b">>, size |-> BigOf(2000000),
        lastModified |-> Stamp(10, 12), storageClass |-> <<"GLACIER">>],
       [key |-> <<"b", "c">>, size |-> BigOf(320 * 1024 * 1024),
        lastModified |-> Stamp(28, 23), storageClass |-> <<"STANDARD">>],
       [key |-> <<"c">>, size |-> BigOf(400 * 1024 * 1024),
        lastModified |-> Stamp(29, 9), storageClass |-> <<"STANDARD_IA">>] >>

BucketNames == {<<>>, <<"b", "k", "t">>}

Prefixes == {<<>>, <<"z">>}

Filters == {<<>>, <<"b", "c">>}

MinSizeStrs == {<<>>, <<"0">>, <<"1", "M", "B">>}

MaxSizeStrs == {<<>>, <<"0">>, <<"1", "M", "B">>, <<"x">>}

\* strings.HasPrefix, strings.Contains
HasPrefix(str, p) == Len(p) <= Len(str) /\ SubSeq(str, 1, Len(p)) = p

Contains(str, sub) ==
    \E i \in 0..(Len(str) - Len(sub)) : SubSeq(str, i + 1, i + Len(sub)) = sub

\* what ListObjectsV2 lists for the prefix
Listing == SelectSeq(Bucket, LAMBDA o : HasPrefix(o.key, bucketPrefix))

\* datasize.MustParseString: decimal digits, then a unit; [ok, val]
IsDigit(c) == \E d \in 1..10 : DigitChars[d] = c

DigitVal(c) == (CHOOSE d \in 1..10 : DigitChars[d] = c) - 1

UnitShift(u) ==
    CASE u = <<>> \/ u = <<"B">> -> 0
      [] u = <<"K", "B">> -> 10
      [] u = <<"M", "B">> -> 20
      [] u = <<"G", "B">> -> 30
      [] u = <<"T", "B">> -> 40
      [] OTHER -> -1

RECURSIVE DigitsValue(_, _, _)
DigitsValue(str, n, acc) ==
    IF n = 0 THEN acc
    ELSE DigitsValue(Tail(str), n - 1, AddBig(MulSmall(acc, 10), BigOf(DigitVal(Head(str)))))

ParseString(str) ==
    LET nd   == IF \A i \in 1..Len(str) : IsDigit(str[i]) THEN Len(str)
                ELSE (CHOOSE i \in 1..Len(str) :
                         ~IsDigit(str[i]) /\ \A j \in 1..(i - 1) : IsDigit(str[j])) - 1
        sh   == UnitShift(SubSeq(str, nd + 1, Len(str)))
    IN  IF nd = 0 \/ sh < 0 THEN [ok |-> FALSE, val |-> <<>>]
        ELSE [ok |-> TRUE, val |-> ShiftL(DigitsValue(str, nd, <<>>), sh)]

\* the flag's value, 0 when the flag is not given
ParsedSize(str) == IF str = <<>> THEN <<>> ELSE ParseString(str).val

ParseFails(str) == str # <<>> /\ ~ParseString(str).ok

\* main, lines 129-134: the object is not skipped
matches(obj) ==
    /\ Contains(obj.key, filter)
    /\ ~( (minSize # <<>> /\ LessBig(obj.size, minSize))
          \/ (maxSize # <<>> /\ LessBig(maxSize, obj.size)) )

Pad2(n) == IF n < 10 THEN <<"0">> \o Dec(n) ELSE Dec(n)

\* time.Time.Format(time.DateTime)
FormatDateTime(t) ==
    Dec(t.Y) \o <<"-">> \o Pad2(t.Mo) \o <<"-">> \o Pad2(t.D) \o <<" ">>
        \o Pad2(t.h) \o <<":">> \o Pad2(t.mi) \o <<":">> \o Pad2(t.s)

\* fmt "%9s"
Pad9(str) == [i \in 1..(9 - Len(str)) |-> " "] \o str

FullPath(key) == <<"s", "3", ":", "/", "/">> \o bucketName \o <<"/">> \o key

\* main, lines 135-158: the line printed for an object
LineOf(obj) ==
    [kind  |-> "line",
     color |-> IF isTerm THEN ColorString(colorForSize(obj.size, fma)) ELSE <<>>,
     size  |-> Pad9(byteCountIEC(obj.size)),
     time  |-> FormatDateTime(obj.lastModified),
     class |-> obj.storageClass,
     key   |-> IF printFullObjectPath THEN FullPath(obj.key) ELSE obj.key,
     reset |-> IF isTerm THEN <<"\\033", "[", "0", "m">> ELSE <<>>]

\* main, lines 125-159
LinesOf(page) ==
    LET sel == SelectSeq(page, matches)
    IN  [i \in 1..Len(sel) |-> LineOf(sel[i])]

\* the totals declared inside the page loop: they restart at every page
RECURSIVE CollectReset(_, _, _)
CollectReset(page, i, acc) ==
    LET from == IF i = 1 THEN [acc EXCEPT !.size = <<>>, !.count = 0] ELSE acc
    IN  IF i > Len(page) THEN from
        ELSE CollectReset(page, i + 1,
                 [objects |-> Append(from.objects, page[i].key),
                  size    |-> AddBig(from.size, page[i].size),
                  count   |-> from.count + 1])

\* the batch declared outside the page loop: it keeps the earlier pages' keys
RECURSIVE CollectCarry(_, _, _)
CollectCarry(page, i, acc) ==
    LET from == IF i = 1 /\ requests # <<>>
                THEN [acc EXCEPT !.objects = requests[Len(requests)].objects]
                ELSE acc
    IN  IF i > Len(page) THEN from
        ELSE CollectCarry(page, i + 1,
                 [objects |-> Append(from.objects, page[i].key),
                  size    |-> AddBig(from.size, page[i].size),
                  count   |-> from.count + 1])

\* main, lines 105-110: the loop over a page in delete mode, from object i on
RECURSIVE Collect(_, _, _)
Collect(page, i, acc) ==
    IF i > Len(page) THEN acc
    ELSE Collect(page, i + 1,
                 [objects |-> Append(acc.objects, page[i].key),
                  size    |-> AddBig(acc.size, page[i].size),
                  count   |-> acc.count + 1])

\* main, line 121
ProgressOf(count, size) ==
    [kind |-> "progress", count |-> Dec(count), size |-> byteCountIEC(size)]

\* the failure only logged (log.Println for log.Fatalln): the loop runs on
RunningAfterFailure == pc \in {"loop", "fatal"}

\* the loop of main runs on: no retrieval has failed (log.Fatalln exits)
Running == pc = "loop"

PageSizes ==
    IF pos < Len(Listing) THEN 1..Min2(MaxPageLen, Len(Listing) - pos) ELSE {0}

InitCall == fn = "none" /\ arg = <<>> /\ ret = <<>>

Init ==
    /\ bucketName \in BucketNames
    /\ bucketPrefix \in Prefixes
    /\ filter \in Filters
    /\ minSizeStr \in MinSizeStrs
    /\ maxSizeStr \in MaxSizeStrs
    /\ printFullObjectPath \in BOOLEAN
    /\ delete \in BOOLEAN
    /\ isTerm \in BOOLEAN
    /\ fma \in Fusions
    \* what a mode never reads stays at its default: delete mode reads neither
    \* -full nor the terminal, and only a coloured line reads the fusion
    /\ delete => ~printFullObjectPath /\ ~isTerm
    /\ ~isTerm => fma = "none"
    /\ minSize = <<>> /\ maxSize = <<>>
    /\ pc = "start"
    /\ pos = 0 /\ more = TRUE
    /\ fetched = <<>> /\ stdout = <<>> /\ requests = <<>> /\ deleted = {}
    /\ totalDeleteSize = <<>> /\ totalObjectsDeleted = 0
    /\ InitCall

\* lines 59-62
Usage ==
    /\ pc = "start" /\ bucketName = <<>>
    /\ pc' = "exit"
    /\ UNCHANGED <<flagVars, callVars, minSize, maxSize, pos, more, fetched, stdout,
                   requests, deleted, totalDeleteSize, totalObjectsDeleted>>

\* lines 64-70: MustParseString panics on a malformed size; maxsize is parsed first
ParsePanic ==
    /\ pc = "start" /\ bucketName # <<>>
    /\ ParseFails(maxSizeStr) \/ ParseFails(minSizeStr)
    /\ pc' = "panic"
    /\ maxSize' = IF ParseFails(maxSizeStr) THEN maxSize ELSE ParsedSize(maxSizeStr)
    /\ UNCHANGED <<flagVars, callVars, minSize, pos, more, fetched, stdout,
                   requests, deleted, totalDeleteSize, totalObjectsDeleted>>

\* lines 64-95, with the configuration loaded and the bucket located, or not
Start(ok) ==
    /\ pc = "start" /\ bucketName # <<>>
    /\ ~ParseFails(maxSizeStr) /\ ~ParseFails(minSizeStr)
    /\ maxSize' = ParsedSize(maxSizeStr)
    /\ minSize' = ParsedSize(minSizeStr)
    /\ pc' = IF ok THEN "loop" ELSE "fatal"
    /\ UNCHANGED <<flagVars, callVars, pos, more, fetched, stdout,
                   requests, deleted, totalDeleteSize, totalObjectsDeleted>>

\* lines 99-103: NextPage fails
PageFails ==
    /\ Running /\ more
    /\ pc' = "fatal"
    /\ UNCHANGED <<flagVars, callVars, minSize, maxSize, pos, more, fetched, stdout,
                   requests, deleted, totalDeleteSize, totalObjectsDeleted>>

\* lines 99-103 and 125-159: a page of k objects is listed
ListPage(k) ==
    /\ Running /\ more /\ ~delete
    /\ k \in PageSizes
    /\ LET page == SubSeq(Listing, pos + 1, pos + k)
       IN  /\ fetched' = Append(fetched, page)
           /\ stdout' = stdout \o LinesOf(page)
    /\ pos' = pos + k
    /\ more' = (pos + k < Len(Listing))
    /\ UNCHANGED <<flagVars, callVars, minSize, maxSize, pc,
                   requests, deleted, totalDeleteSize, totalObjectsDeleted>>

\* the outcome of DeleteObjects checked: a failed call is fatal
DeletePageChecked(k, ok) ==
    /\ Running /\ more /\ delete
    /\ k \in PageSizes
    /\ LET page == SubSeq(Listing, pos + 1, pos + k)
           acc  == Collect(page, 1, [objects |-> <<>>, size |-> totalDeleteSize,
                                     count |-> totalObjectsDeleted])
       IN  /\ fetched' = Append(fetched, page)
           /\ totalDeleteSize' = acc.size
           /\ totalObjectsDeleted' = acc.count
           /\ requests' = Append(requests, [objects |-> acc.objects, ok |-> ok])
           /\ deleted' = IF ok THEN deleted \cup {acc.objects[i] : i \in 1..Len(acc.objects)}
                         ELSE deleted
           /\ stdout' = IF ok THEN Append(stdout, ProgressOf(acc.count, acc.size)) ELSE stdout
    /\ pos' = pos + k
    /\ more' = (pos + k < Len(Listing))
    /\ pc' = IF ok THEN pc ELSE "fatal"
    /\ UNCHANGED <<flagVars, callVars, minSize, maxSize>>

\* lines 99-123: a page of k objects is deleted; the call's outcome is dropped
DeletePage(k, ok) ==
    /\ Running /\ more /\ delete
    /\ k \in PageSizes
    /\ LET page == SubSeq(Listing, pos + 1, pos + k)
           acc  == Collect(page, 1, [objects |-> <<>>, size |-> totalDeleteSize,
                                     count |-> totalObjectsDeleted])
       IN  /\ fetched' = Append(fetched, page)
           /\ totalDeleteSize' = acc.size
           /\ totalObjectsDeleted' = acc.count
           /\ requests' = Append(requests, [objects |-> acc.objects, ok |-> ok])
           /\ deleted' = IF ok THEN deleted \cup {acc.objects[i] : i \in 1..Len(acc.objects)}
                         ELSE deleted
           /\ stdout' = Append(stdout, ProgressOf(acc.count, acc.size))
    /\ pos' = pos + k
    /\ more' = (pos + k < Len(Listing))
    /\ UNCHANGED <<flagVars, callVars, minSize, maxSize, pc>>

\* line 99: HasMorePages is false, main returns
Finish ==
    /\ Running /\ ~more
    /\ pc' = "done"
    /\ UNCHANGED <<flagVars, callVars, minSize, maxSize, pos, more, fetched, stdout,
                   requests, deleted, totalDeleteSize, totalObjectsDeleted>>

Next ==
    \/ Usage
    \/ ParsePanic
    \/ \E ok \in BOOLEAN : Start(ok)
    \/ PageFails
    \/ \E k \in 0..MaxPageLen : ListPage(k)
    \/ \E k \in 0..MaxPageLen, ok \in BOOLEAN : DeletePage(k, ok)
    \/ Finish

Spec == Init /\ [][Next]_vars

\* ------------------------------------------- the functions, called directly

\* limbs of an int64: 63 bits of magnitude
Int64Limbs == 7

\* largest denominator of the factors n/d tried
MaxDen == 5

\* byte counts met at every unit: a top limb, the limb below it, the rest
IECInputs ==
    {<<>>} \cup
    { Trim([i \in 1..len |-> IF i = len THEN top ELSE IF i = len - 1 THEN mid ELSE low]) :
        len \in 1..Int64Limbs, top \in {1, 7, 512, 1023}, mid \in {0, 972, 973, 1023},
        low \in {0, 1023} }

Int64Ok(b) == BitLen(b) <= 63

Stops == {white, darkRed, [R |-> 0, G |-> 0, B |-> 0], [R |-> 1, G |-> 128, B |-> 254]}

Mib16 == 16 * 1024 * 1024

ColorSizes ==
    { BigOf(x) : x \in {0, 100, 1048576, 1048577, 2000000, 419430399, 419430400, 419430401} }
    \cup { BigOf(k * Mib16) : k \in 1..30 }
    \cup { ShiftL(<<5>>, 40) }

\* float64(n) / float64(d), as main forms the factor
FactorOf(n, d) == FDiv(FloatOfInt(n), FloatOfInt(d))

InitDriverIdle ==
    /\ bucketName = <<>> /\ bucketPrefix = <<>> /\ filter = <<>>
    /\ minSizeStr = <<>> /\ maxSizeStr = <<>>
    /\ printFullObjectPath = FALSE /\ delete = FALSE /\ isTerm = TRUE
    /\ minSize = <<>> /\ maxSize = <<>>
    /\ pos = 0 /\ more = TRUE
    /\ fetched = <<>> /\ stdout = <<>> /\ requests = <<>> /\ deleted = {}
    /\ totalDeleteSize = <<>> /\ totalObjectsDeleted = 0

InitFn ==
    /\ InitDriverIdle
    /\ pc = "call"
    /\ ret = <<>>
    /\ \/ /\ fn = "byteCountIEC" /\ fma = "none"
          /\ arg \in {b \in IECInputs : Int64Ok(b)}
       \/ /\ fn = "interpolateColor" /\ fma \in Fusions
          /\ arg \in {[n |-> n, d |-> d, c1 |-> c1, c2 |-> c2] :
                         n \in 0..MaxDen, d \in 1..MaxDen, c1 \in Stops, c2 \in Stops}
          /\ arg.n <= arg.d
       \/ /\ fn = "colorForSize" /\ fma \in Fusions
          /\ arg \in ColorSizes

CallByteCountIEC ==
    /\ pc = "call" /\ fn = "byteCountIEC"
    /\ ret' = byteCountIEC(arg)
    /\ pc' = "returned"
    /\ UNCHANGED <<flagVars, fn, arg, minSize, maxSize, pos, more, fetched, stdout,
                   requests, deleted, totalDeleteSize, totalObjectsDeleted>>

CallInterpolateColor ==
    /\ pc = "call" /\ fn = "interpolateColor"
    /\ ret' = interpolateColor(FactorOf(BigOf(arg.n), BigOf(arg.d)), arg.c1, arg.c2, fma)
    /\ pc' = "returned"
    /\ UNCHANGED <<flagVars, fn, arg, minSize, maxSize, pos, more, fetched, stdout,
                   requests, deleted, totalDeleteSize, totalObjectsDeleted>>

CallColorForSize ==
    /\ pc = "call" /\ fn = "colorForSize"
    /\ ret' = colorForSize(arg, fma)
    /\ pc' = "returned"
    /\ UNCHANGED <<flagVars, fn, arg, minSize, maxSize, pos, more, fetched, stdout,
                   requests, deleted, totalDeleteSize, totalObjectsDeleted>>

NextFn == CallByteCountIEC \/ CallInterpolateColor \/ CallColorForSize

SpecFn == InitFn /\ [][NextFn]_vars

\* ---------------------------------------------------------------- claims

RECURSIVE Flatten(_)
Flatten(pages) == IF pages = <<>> THEN <<>> ELSE Head(pages) \o Flatten(Tail(pages))

RECURSIVE SumSizes(_)
SumSizes(objs) == IF objs = <<>> THEN <<>> ELSE AddBig(Head(objs).size, SumSizes(Tail(objs)))

\* the objects of the first i pages fetched
Upto(i) == Flatten(SubSeq(fetched, 1, i))

KeysOf(objs) == [i \in 1..Len(objs) |-> objs[i].key]

\* the key as a line shows it
ShownKey(obj) == IF printFullObjectPath THEN FullPath(obj.key) ELSE obj.key

\* the filter of the specification: a bound is unset exactly when its flag is
\* not given, and a given bound, 0 included, is compared with the size
SpecMatches(obj) ==
    /\ Contains(obj.key, filter)
    /\ minSizeStr = <<>> \/ LeqBig(ParseString(minSizeStr).val, obj.size)
    /\ maxSizeStr = <<>> \/ LeqBig(obj.size, ParseString(maxSizeStr).val)

Listed(obj) == \E i \in 1..Len(stdout) : stdout[i].kind = "line" /\ stdout[i].key = ShownKey(obj)

Lines == SelectSeq(stdout, LAMBDA l : l.kind = "line")

\* C1: in normal mode an object of a fetched page is listed iff its key
\* contains the filter, and its size is >= the given minimum and <= the given
\* maximum, each bound being any non-negative integer, 0 included.
C1_ListedIffSpecMatches ==
    ~delete =>
        \A i \in 1..Len(Flatten(fetched)) :
            Listed(Flatten(fetched)[i]) <=> SpecMatches(Flatten(fetched)[i])

\* C1 short of a maximum of 0: what the code does keep of it
C1_ListedIffSpecMatchesPositive ==
    maxSizeStr # <<"0">> => C1_ListedIffSpecMatches

\* C2: in delete mode the n-th progress report shows the number of objects of
\* the first n pages and the formatted sum of their sizes: the totals are
\* never reset between pages.
C2_RunningTotals ==
    delete =>
        /\ Len(stdout) = Len(fetched)
        /\ \A i \in 1..Len(stdout) :
              /\ stdout[i].kind = "progress"
              /\ stdout[i].count = Dec(Len(Upto(i)))
              /\ stdout[i].size = byteCountIEC(SumSizes(Upto(i)))
        /\ totalObjectsDeleted = Len(Flatten(fetched))
        /\ totalDeleteSize = SumSizes(Flatten(fetched))

\* pages of 3 and then 2 objects were deleted and the report reads 5 objects
C2_Witness ==
    /\ delete /\ Len(fetched) = 2
    /\ Len(fetched[1]) = 3 /\ Len(fetched[2]) = 2
    /\ stdout[2].count = <<"5">>
    /\ stdout[2].size = <<"7", "2", "2", ".", "9", " ", "M", "B">>

\* C3: in delete mode every fetched page has exactly one deletion request,
\* holding exactly that page's keys in listing order, whatever the filter,
\* minsize and maxsize flags are; no listing line is printed.
C3_OneBatchPerPage ==
    delete =>
        /\ Len(requests) = Len(fetched)
        /\ \A i \in 1..Len(requests) : requests[i].objects = KeysOf(fetched[i])
        /\ Lines = <<>>

\* two pages were deleted under a filter and a minimum size that the first
\* page's first object fails
C3_Witness ==
    /\ delete /\ filter # <<>> /\ minSizeStr # <<>> /\ minSize # <<>> /\ maxSizeStr # <<>>
    /\ Len(requests) = 2 /\ Len(requests[1].objects) = 2 /\ Len(requests[2].objects) = 3
    /\ ~matches(fetched[1][1])

\* C4: in normal mode the lines printed are, in feed order, exactly one per
\* matching object of the pages fetched and none for another; no deletion
\* request is issued and the delete totals stay 0.
C4_OneLinePerMatchInOrder ==
    ~delete =>
        /\ Len(stdout) = Len(Lines)
        /\ [i \in 1..Len(Lines) |-> Lines[i].key]
              = [i \in 1..Len(SelectSeq(Flatten(fetched), SpecMatches)) |->
                    ShownKey(SelectSeq(Flatten(fetched), SpecMatches)[i])]
        /\ requests = <<>> /\ deleted = {}
        /\ totalDeleteSize = <<>> /\ totalObjectsDeleted = 0

\* C4 short of a maximum of 0: what the code does keep of it
C4_OneLinePerMatchInOrderPositive ==
    maxSizeStr # <<"0">> => C4_OneLinePerMatchInOrder

\* C5: on a terminal a listed object of size <= 1,048,576 is coloured white
\* and one of size >= 419,430,400 is coloured darkRed.
C5_ColourAtThresholds ==
    (~delete /\ isTerm) =>
        LET objs == SelectSeq(Flatten(fetched), matches)
        IN  \A i \in 1..Len(Lines) :
               /\ LeqBig(objs[i].size, minObjectSizeLimit)
                     => Lines[i].color = ColorString(white)
               /\ LeqBig(maxObjectSizeLimit, objs[i].size)
                     => Lines[i].color = ColorString(darkRed)

Pow1024(k) == Zeros(k) \o <<1>>

Returned(f) == pc = "returned" /\ fn = f

Suffix(str, n) == SubSeq(str, Len(str) - n + 1, Len(str))

\* C6: byteCountIEC(b) is "<b> B" for 0 <= b < 1024; for 1024 <= b <= 2^63-1
\* the exponent e and divisor d chosen satisfy d = 1024^(e+1), d <= b < 1024*d
\* and 0 <= e <= 5, and the unit printed is the e-th letter of KMGTPE.
C6_UnitScale ==
    Returned("byteCountIEC") =>
        IF LessBig(arg, unit)
        THEN ret = Dec(NatOf(arg)) \o <<" ", "B">>
        ELSE LET e == IECScale(arg).exp
                 d == IECScale(arg).div
             IN  /\ e \in 0..5
                 /\ d = Pow1024(e + 1)
                 /\ LeqBig(d, arg) /\ LessBig(arg, MulSmall(d, 1024))
                 /\ Suffix(ret, 3) = <<" ", UnitLetters[e + 1], "B">>
                 /\ (arg = Pow1024(1) => ret = <<"1", ".", "0", " ", "K", "B">>)
                 /\ (arg = Pow1024(2) => ret = <<"1", ".", "0", " ", "M", "B">>)

\* 2^63 - 1 was formatted, in exabytes
C6_Witness ==
    /\ Returned("byteCountIEC")
    /\ arg = <<1023, 1023, 1023, 1023, 1023, 1023, 7>>
    /\ ret = <<"8", ".", "0", " ", "E", "B">>

\* a * (1 - n/d) + b * n/d in exact arithmetic, truncated
ExactChannel(n, d, a, b) == (a * (d - n) + b * n) \div d

Between(x, a, b) == Min2(a, b) <= x /\ x <= Max2(a, b)

\* a * (1 - size/maxThreshold) + b * size/maxThreshold in exact arithmetic,
\* truncated: the threshold is 25 * 2^24
ExactChannelOfSize(size, a, b) ==
    NatOf(DivSmall(ShiftR(AddBig(MulSmall(SubBig(maxObjectSizeLimit, size), a),
                                  MulSmall(size, b)), 24), 25).q)

InGradient(size) == LessBig(minObjectSizeLimit, size) /\ LessBig(size, maxObjectSizeLimit)

EndpointsExact ==
    Returned("interpolateColor") =>
        /\ arg.n = 0 => ret = arg.c1
        /\ arg.n = arg.d => ret = arg.c2

\* C7 as stated: interpolateColor(0, A, B) = A, interpolateColor(1, A, B) = B,
\* and for every factor n/d in [0,1], every size/maxThreshold of the driver
\* included, each channel of interpolateColor(n/d, white, darkRed) is
\* A*(1-factor) + B*factor truncated and lies between the stops' channels.
C7_ExactInterpolation ==
    /\ EndpointsExact
    /\ (Returned("interpolateColor") /\ arg.c1 = white /\ arg.c2 = darkRed) =>
          /\ ret.R = ExactChannel(arg.n, arg.d, 255, 220) /\ Between(ret.R, 255, 220)
          /\ ret.G = ExactChannel(arg.n, arg.d, 255, 0) /\ Between(ret.G, 255, 0)
          /\ ret.B = ExactChannel(arg.n, arg.d, 255, 0) /\ Between(ret.B, 255, 0)
    /\ (Returned("colorForSize") /\ InGradient(arg)) =>
          /\ ret.R = ExactChannelOfSize(arg, 255, 220) /\ Between(ret.R, 255, 220)
          /\ ret.G = ExactChannelOfSize(arg, 255, 0) /\ Between(ret.G, 255, 0)
          /\ ret.B = ExactChannelOfSize(arg, 255, 0) /\ Between(ret.B, 255, 0)

\* the exact value truncated, or one less
NearExact(x, exact) == x = exact \/ x = exact - 1

\* C7 as amended: interpolateColor(0, A, B) = A, interpolateColor(1, A, B) = B,
\* and for every factor n/d in [0,1], every size/maxThreshold of the driver
\* included, each channel of interpolateColor(n/d, white, darkRed) lies
\* between the stops' channels and is the float64 value of the expression
\* truncated: the exact value truncated, or one less.
C7_Float64Interpolation ==
    /\ EndpointsExact
    /\ (Returned("interpolateColor") /\ arg.c1 = white /\ arg.c2 = darkRed) =>
          /\ NearExact(ret.R, ExactChannel(arg.n, arg.d, 255, 220)) /\ Between(ret.R, 255, 220)
          /\ NearExact(ret.G, ExactChannel(arg.n, arg.d, 255, 0)) /\ Between(ret.G, 255, 0)
          /\ NearExact(ret.B, ExactChannel(arg.n, arg.d, 255, 0)) /\ Between(ret.B, 255, 0)
    /\ (Returned("colorForSize") /\ InGradient(arg)) =>
          /\ NearExact(ret.R, ExactChannelOfSize(arg, 255, 220)) /\ Between(ret.R, 255, 220)
          /\ NearExact(ret.G, ExactChannelOfSize(arg, 255, 0)) /\ Between(ret.G, 255, 0)
          /\ NearExact(ret.B, ExactChannelOfSize(arg, 255, 0)) /\ Between(ret.B, 255, 0)

\* interpolateColor(4/5, white, darkRed) returned green 50, the exact value
\* being 51
C7_Witness ==
    /\ Returned("interpolateColor")
    /\ arg.n = 4 /\ arg.d = 5 /\ arg.c1 = white /\ arg.c2 = darkRed
    /\ ret = [R |-> 227, G |-> 50, B |-> 50]

EffectsOf == <<fetched, stdout, requests, deleted, totalDeleteSize, totalObjectsDeleted, pos>>

\* C8: once a retrieval has failed the process is over: the step that fails
\* and every step after it fetch no page, issue no deletion request, change no
\* total and print no line; what the earlier pages did stands.
C8_FailureIsFinal ==
    [][pc' = "fatal" => (EffectsOf' = EffectsOf /\ (pc = "fatal" => UNCHANGED vars))]_vars

\* a retrieval failed after a page was processed and printed
C8_Witness ==
    /\ pc = "fatal" /\ Len(fetched) >= 1 /\ stdout # <<>> /\ more

Last(seq) == seq[Len(seq)]

\* C9: in delete mode a step whose deletion call fails leaves the loop
\* running, with the next page to fetch when the listing has one, and counts
\* the page's objects and bytes in the report printed.
C9_FailedDeleteIgnored ==
    [][(Len(requests') = Len(requests) + 1 /\ ~Last(requests').ok) =>
          /\ pc' = "loop"
          /\ more' = (pos' < Len(Listing))
          /\ deleted' = deleted
          /\ totalObjectsDeleted' = totalObjectsDeleted + Len(Last(fetched'))
          /\ Last(stdout') = ProgressOf(Len(Flatten(fetched')), SumSizes(Flatten(fetched')))
      ]_vars

\* a deletion failed, a later page was fetched all the same, and the count
\* reported is above the number of objects deleted
C9_Witness ==
    /\ delete /\ Len(requests) = 2
    /\ ~requests[1].ok /\ requests[2].ok
    /\ totalObjectsDeleted = 5 /\ Cardinality(deleted) = 2
    /\ Last(stdout).count = <<"5">>

\* the number a text "<digits>.<digit> <unit>B" shows, in tenths
RECURSIVE DigitsToNat(_, _)
DigitsToNat(str, acc) ==
    IF str = <<>> THEN acc
    ELSE IF Head(str) = "." THEN DigitsToNat(Tail(str), acc)
    ELSE DigitsToNat(Tail(str), 10 * acc + DigitVal(Head(str)))

Tenths(text) == DigitsToNat(SubSeq(text, 1, Len(text) - 3), 0)

\* C10 as stated: for 1024 <= b <= 2^63-1 the number byteCountIEC renders is
\* at least 1.0 and strictly below 1024.0.
C10_RenderedBelow1024 ==
    (Returned("byteCountIEC") /\ LeqBig(unit, arg)) =>
        10 <= Tenths(ret) /\ Tenths(ret) < 10240

\* C10 as amended: for 1024 <= b <= 2^63-1 the number byteCountIEC renders is
\* at least 1.0 and at most 1024.0; 1024.0 is rendered where the quotient,
\* itself below 1024, rounds up to it.
C10_RenderedAtMost1024 ==
    (Returned("byteCountIEC") /\ LeqBig(unit, arg)) =>
        /\ 10 <= Tenths(ret) /\ Tenths(ret) <= 10240
        /\ Tenths(ret) = 10240 => LessBig(arg, MulSmall(IECScale(arg).div, 1024))

\* 1,048,575 was formatted as 1024.0 KB
C10_Witness ==
    /\ Returned("byteCountIEC")
    /\ arg = <<1023, 1023>>
    /\ ret = <<"1", "0", "2", "4", ".", "0", " ", "K", "B">>

====
